---- MODULE Spec2Model ----
(***************************************************************************)
(* Model of the kalisystem-interface state store (AppContext.tsx) and of   *)
(* its remote sync adapter (SupabaseSync).                                  *)
(*                                                                         *)
(* The store is a React component: every collection is a useState cell.    *)
(* A handler reads the collections through the closure of the last render  *)
(* (the variable "rendered") and writes through the setters, whose effect  *)
(* is the cell's next value (the variables items, suppliers, ...).  A      *)
(* functional setter  setX(prev => f(prev))  is applied to the cell's next *)
(* value, a plain setter  setX(v)  replaces it.  Render commits the cells  *)
(* into a new closure and runs the effects whose dependencies changed.     *)
(***************************************************************************)
EXTENDS Integers, Sequences, FiniteSets, TLC

(***************************************************************************)
(* Bounds of the model.                                                    *)
(***************************************************************************)
MaxSyncCalls == 3
MaxCartCalls == 4
MaxPendingCalls == 2
MaxImportCalls == 4
MaxRows == 2
MaxDraftLines == 2
MaxStoreCalls == 2

(***************************************************************************)
(* Small value pools the inputs are drawn from.                            *)
(***************************************************************************)
undefined == "undefined"
CASH_ON_DELIVERY == "CASH ON DELIVERY"
SupplierNames == {"s1", "s2"}
StoreTags == {"wb", "o2"}
ItemIds == {"a", "b"}
ItemPool == {[id |-> "a", supplier |-> "s1"], [id |-> "b", supplier |-> "s2"]}
Quantities == {1, 2}
RowIds == {"r1", "r2", "r3"}
NanoIds == <<"n1", "n2", "n3", "n4", "n5", "n6", "n7", "n8", "n9", "n10", "n11", "n12">>
PushCategories == {"items", "suppliers", "pendingOrders"}
Categories == PushCategories \cup {"currentOrder"}

VARIABLES
  \* useState cells of AppProvider: the value the next render will show
  items, suppliers, currentOrder, currentOrderMetadata, completedOrders,
  pendingOrders, initialized,
  \* the values captured by the closures of the last render
  rendered,
  \* what initializeData met: still loading, or what the four fetches
  \* answered and whether the default data parsed
  startup,
  \* nanoid() and new Date()
  nextId, now,
  \* what the caller of the store holds: the last handler it called, the
  \* last value addPendingOrder returned, the last snapshot exportData
  \* returned, the last data it gave to importData
  lastOp, ret, exported, lastData,
  \* history of the cart: quantity added per (item id, storeTag) since the
  \* cart was last empty, and whether only addToOrder touched it since then
  cartAdds, cartPure,
  \* history of the pending orders: per (supplier, storeTag), the quantity
  \* submitted per item id and whether every draft had an open status
  submitted,
  \* SupabaseSync: the static guard, the async calls awaiting a response,
  \* the remote tables, the number of the sync calls made, and the outcome
  \* of the last call made or settled
  syncInProgress, inflight, remote, nSync, lastSync

storeVars == <<items, suppliers, currentOrder, currentOrderMetadata,
               completedOrders, pendingOrders, initialized>>
callerVars == <<lastOp, ret, exported, lastData>>
historyVars == <<cartAdds, cartPure, submitted>>
syncVars == <<syncInProgress, inflight, remote, nSync, lastSync>>
appVars == <<storeVars, startup, rendered, nextId, now, callerVars, historyVars>>
vars == <<appVars, syncVars>>

(***************************************************************************)
(* Helpers on sequences.                                                   *)
(***************************************************************************)
Range(s) == {s[i] : i \in DOMAIN s}

SeqsUpTo(S, n) == UNION {[1..k -> S] : k \in 0..n}

Injective(s) == \A i, j \in DOMAIN s : s[i] = s[j] => i = j

RemoveAt(s, i) == SubSeq(s, 1, i - 1) \o SubSeq(s, i + 1, Len(s))

(***************************************************************************)
(* SupabaseSync: the remote sync adapter.                                  *)
(*                                                                         *)
(* remote.items, remote.suppliers and remote.pending_orders are sets of    *)
(* rows keyed by id; remote.current_order is the sequence of the rows of   *)
(* the singleton table in insertion order (a row's id is its position).    *)
(* A call awaiting a response is a record of inflight: its category, the   *)
(* rows it was given, the index k of the row whose upsert it awaits (for   *)
(* syncCurrentOrder: 0 while it awaits the select, 1 while it awaits the   *)
(* write) and the id the select returned (0 for none).                     *)
(***************************************************************************)
TableOf(cat) ==
  CASE cat = "items" -> "items"
    [] cat = "suppliers" -> "suppliers"
    [] cat = "pendingOrders" -> "pending_orders"

\* if (this.syncInProgress) return;   without the test
GuardNeverHeld(guard) == FALSE

\* if (this.syncInProgress) return;
GuardHeld(guard) == guard

\* .upsert(row, { onConflict: 'id' })
Upsert(table, row) == {r \in table : r.id # row.id} \cup {row}

\* The synchronous part of syncItems / syncSuppliers / syncPendingOrders:
\* from the guard to the first await.  An empty collection runs the loop
\* zero times and releases the guard in the finally block at once.
pushAllCall(guard, flight, cat, rows) ==
  IF GuardHeld(guard)
    THEN [guard |-> guard, inflight |-> flight, result |-> "dropped"]
    ELSE IF rows = <<>>
      THEN [guard |-> FALSE, inflight |-> flight, result |-> "done"]
      ELSE [guard |-> TRUE,
            inflight |-> Append(flight,
                           [cat |-> cat, rows |-> rows, k |-> 1, existing |-> 0]),
            result |-> "started"]

\* The synchronous part of syncCurrentOrder: from the guard to the await of
\* the select.
singletonCall(guard, flight, payload) ==
  IF GuardHeld(guard)
    THEN [guard |-> guard, inflight |-> flight, result |-> "dropped"]
    ELSE [guard |-> TRUE,
          inflight |-> Append(flight,
                         [cat |-> "currentOrder", rows |-> <<payload>>,
                          k |-> 0, existing |-> 0]),
          result |-> "started"]

SyncCall(cat, r) ==
  /\ nSync < MaxSyncCalls
  /\ nSync' = nSync + 1
  /\ syncInProgress' = r.guard
  /\ inflight' = r.inflight
  /\ lastSync' = [cat |-> cat, result |-> r.result]
  /\ UNCHANGED <<remote, appVars>>

syncItems(rows) ==
  SyncCall("items", pushAllCall(syncInProgress, inflight, "items", rows))

syncSuppliers(rows) ==
  SyncCall("suppliers", pushAllCall(syncInProgress, inflight, "suppliers", rows))

syncPendingOrders(rows) ==
  SyncCall("pendingOrders",
           pushAllCall(syncInProgress, inflight, "pendingOrders", rows))

syncCurrentOrder(payload) ==
  SyncCall("currentOrder", singletonCall(syncInProgress, inflight, payload))

\* The call leaves inflight with no finally block: the guard stays as it is.
FinishWithoutRelease(i) ==
  /\ UNCHANGED syncInProgress
  /\ inflight' = RemoveAt(inflight, i)

\* The finally block: the guard is released and the call leaves inflight.
Finish(i) ==
  /\ syncInProgress' = FALSE
  /\ inflight' = RemoveAt(inflight, i)

\* if (error) throw error  with the rows the call wrote before taken back
ThrowAtRollingBack(table, rows, k) == table \ {rows[j] : j \in 1..(k - 1)}

\* if (error) throw error: the table when the upsert of row k failed.  The
\* rows the call wrote before row k are left in it.
ThrowAt(table, rows, k) == table

\* The awaited upsert of row k answers.  Without error the row is in the table
\* and the loop goes on to the next row or ends (the promise resolves); with
\* an error the row is not written and the call throws out of the loop (the
\* promise rejects).
UpsertSettles(i, ok) ==
  /\ i \in DOMAIN inflight
  /\ inflight[i].cat \in PushCategories
  /\ LET t == inflight[i]
         tab == TableOf(t.cat)
     IN IF ok
          THEN /\ remote' = [remote EXCEPT ![tab] = Upsert(@, t.rows[t.k])]
               /\ IF t.k < Len(t.rows)
                    THEN /\ inflight' = [inflight EXCEPT ![i].k = t.k + 1]
                         /\ UNCHANGED <<syncInProgress, lastSync>>
                    ELSE /\ Finish(i)
                         /\ lastSync' = [cat |-> t.cat, result |-> "resolved"]
          ELSE /\ remote' = [remote EXCEPT ![tab] = ThrowAt(@, t.rows, t.k)]
               /\ Finish(i)
               /\ lastSync' = [cat |-> t.cat, result |-> "rejected", k |-> t.k,
                               rows |-> t.rows]
  /\ UNCHANGED <<nSync, appVars>>

\* The awaited  select('id').limit(1).maybeSingle()  answers: the id of a row
\* of the table, or null when the table is empty or the select failed (the
\* error of the select is not read).
SelectSettles(i, ok) ==
  /\ i \in DOMAIN inflight
  /\ inflight[i].cat = "currentOrder"
  /\ inflight[i].k = 0
  /\ \E id \in (IF ok /\ remote.current_order # <<>>
                  THEN DOMAIN remote.current_order ELSE {0}) :
       inflight' = [inflight EXCEPT ![i].k = 1, ![i].existing = id]
  /\ UNCHANGED <<syncInProgress, remote, nSync, lastSync, appVars>>

\* The awaited update (existing row) or insert (no row) answers.
WriteSettles(i, ok) ==
  /\ i \in DOMAIN inflight
  /\ inflight[i].cat = "currentOrder"
  /\ inflight[i].k = 1
  /\ LET t == inflight[i]
     IN IF ok
          THEN /\ remote' = [remote EXCEPT !.current_order =
                               IF t.existing # 0
                                 THEN [@ EXCEPT ![t.existing] = t.rows[1]]
                                 ELSE Append(@, t.rows[1])]
               /\ lastSync' = [cat |-> t.cat, result |-> "resolved"]
          ELSE /\ UNCHANGED remote
               /\ lastSync' = [cat |-> t.cat, result |-> "rejected", k |-> 1,
                               rows |-> t.rows]
  /\ Finish(i)
  /\ UNCHANGED <<nSync, appVars>>

(***************************************************************************)
(* Initial state: AppProvider is mounted, nothing is loaded, nothing is in *)
(* flight, the remote tables are empty.                                    *)
(***************************************************************************)
Snapshot ==
  [items |-> items, suppliers |-> suppliers, currentOrder |-> currentOrder,
   currentOrderMetadata |-> currentOrderMetadata,
   completedOrders |-> completedOrders, pendingOrders |-> pendingOrders,
   initialized |-> initialized]

NoAdds == [p \in ItemIds \X (StoreTags \cup {undefined}) |-> [n |-> 0, sum |-> 0]]

NoSubmitted ==
  [p \in SupplierNames \X StoreTags |->
     [allOpen |-> TRUE, quantity |-> [id \in ItemIds |-> 0]]]

\* The state of AppProvider and of SupabaseSync when AppProvider is mounted.
InitLocal ==
  /\ items = <<>>
  /\ suppliers = <<>>
  /\ currentOrder = <<>>
  /\ currentOrderMetadata =
       [paymentMethod |-> CASH_ON_DELIVERY, store |-> undefined]
  /\ completedOrders = <<>>
  /\ pendingOrders = <<>>
  /\ initialized = FALSE
  /\ startup = [phase |-> "loading"]
  /\ rendered = [items |-> <<>>, suppliers |-> <<>>, currentOrder |-> <<>>,
                 currentOrderMetadata |->
                   [paymentMethod |-> CASH_ON_DELIVERY, store |-> undefined],
                 completedOrders |-> <<>>, pendingOrders |-> <<>>,
                 initialized |-> FALSE]
  /\ nextId = 1
  /\ now = 0
  /\ lastOp = "mount"
  /\ ret = undefined
  /\ exported = [taken |-> FALSE]
  /\ lastData = [given |-> FALSE]
  /\ cartAdds = NoAdds
  /\ cartPure = TRUE
  /\ submitted = NoSubmitted
  /\ syncInProgress = FALSE
  /\ inflight = <<>>
  /\ nSync = 0
  /\ lastSync = [cat |-> "none", result |-> "none"]

EmptyRemote ==
  [items |-> {}, suppliers |-> {}, pending_orders |-> {}, current_order |-> <<>>]

Init ==
  /\ InitLocal
  /\ remote = EmptyRemote

(***************************************************************************)
(* AppProvider: rendering.                                                 *)
(*                                                                         *)
(* The four auto-save effects run after a render, in the order they are    *)
(* declared, each when one of its dependencies changed and initialized is  *)
(* true.  Each calls the adapter, whose synchronous part runs at once.     *)
(***************************************************************************)
EffectCall(s, fire, r) == IF fire THEN [guard |-> r.guard, inflight |-> r.inflight] ELSE s

\* An effect whose body calls the adapter without testing initialized.
EffectFiresUnguarded(init, changed) == changed

\* An effect runs when one of its dependencies changed; its body calls the
\* adapter  if (initialized).
EffectFires(init, changed) == init /\ changed

RunEffects(prev, cur) ==
  LET flip == prev.initialized # cur.initialized
      s0 == [guard |-> syncInProgress, inflight |-> inflight]
      s1 == EffectCall(s0, EffectFires(cur.initialized, flip \/ prev.items # cur.items),
                       pushAllCall(s0.guard, s0.inflight, "items", cur.items))
      s2 == EffectCall(s1, EffectFires(cur.initialized,
                                       flip \/ prev.suppliers # cur.suppliers),
                       pushAllCall(s1.guard, s1.inflight, "suppliers", cur.suppliers))
      s3 == EffectCall(s2, EffectFires(cur.initialized,
                                       flip \/ prev.pendingOrders # cur.pendingOrders),
                       pushAllCall(s2.guard, s2.inflight, "pendingOrders",
                                   cur.pendingOrders))
      s4 == EffectCall(s3, EffectFires(cur.initialized,
                                       flip \/ prev.currentOrder # cur.currentOrder
                                            \/ prev.currentOrderMetadata #
                                                 cur.currentOrderMetadata),
                       singletonCall(s3.guard, s3.inflight,
                                     [items |-> cur.currentOrder,
                                      payment_method |-> cur.currentOrderMetadata.paymentMethod,
                                      store |-> cur.currentOrderMetadata.store]))
  IN s4

Render ==
  /\ rendered # Snapshot
  /\ rendered' = Snapshot
  /\ LET s == RunEffects(rendered, Snapshot)
     IN /\ syncInProgress' = s.guard
        /\ inflight' = s.inflight
  /\ UNCHANGED <<storeVars, startup, nextId, now, callerVars, historyVars, remote, nSync, lastSync>>

(***************************************************************************)
(* AppProvider: the cart (currentOrder and currentOrderMetadata).          *)
(***************************************************************************)
DefaultMetadata == [paymentMethod |-> CASH_ON_DELIVERY, store |-> undefined]

\* nanoid(): an id no earlier call returned.
nanoid == NanoIds[nextId]

\* Every handler call reads the clock once and is the caller's last call; the
\* model stops calling a handler when the clock reaches the handler's limit.
Called(op, limit) ==
  /\ now < limit
  /\ now' = now + 1
  /\ lastOp' = op

\* oi.item.id === item.id   alone
SameItemAnyStore(oi, itemId, storeTag) == oi.item.id = itemId

\* oi.item.id === item.id && oi.storeTag === storeTag
SameLine(oi, itemId, storeTag) == oi.item.id = itemId /\ oi.storeTag = storeTag

\* The history of the cart after a handler set it to cart.
TrackCart(cart, isAdd, key, quantity) ==
  IF cart = <<>>
    THEN cartAdds' = NoAdds /\ cartPure' = TRUE
    ELSE IF isAdd
      THEN /\ cartAdds' = [cartAdds EXCEPT ![key] =
                             [n |-> @.n + 1, sum |-> @.sum + quantity]]
           /\ UNCHANGED cartPure
      ELSE cartPure' = FALSE /\ UNCHANGED cartAdds

\* The updater addToOrder passes to setCurrentOrder.
addToOrderUpdate(prev, item, quantity, storeTag) ==
  IF \E i \in DOMAIN prev : SameLine(prev[i], item.id, storeTag)
    THEN [i \in DOMAIN prev |->
            IF SameLine(prev[i], item.id, storeTag)
              THEN [prev[i] EXCEPT !.quantity = @ + quantity]
              ELSE prev[i]]
    ELSE Append(prev, [item |-> item, quantity |-> quantity, storeTag |-> storeTag])

addToOrder(item, quantity, storeTag) ==
  /\ Called("addToOrder", MaxCartCalls)
  /\ currentOrder' = addToOrderUpdate(currentOrder, item, quantity, storeTag)
  /\ TrackCart(currentOrder', TRUE, <<item.id, storeTag>>, quantity)
  /\ UNCHANGED <<items, suppliers, currentOrderMetadata, completedOrders, pendingOrders,
                 initialized, startup, rendered, nextId, ret, exported, lastData, submitted,
                 syncVars>>

updateOrderItem(itemId, quantity, storeTag) ==
  /\ Called("updateOrderItem", MaxCartCalls)
  /\ currentOrder' = [i \in DOMAIN currentOrder |->
                        IF SameLine(currentOrder[i], itemId, storeTag)
                          THEN [currentOrder[i] EXCEPT !.quantity = quantity]
                          ELSE currentOrder[i]]
  /\ TrackCart(currentOrder', FALSE, <<itemId, storeTag>>, quantity)
  /\ UNCHANGED <<items, suppliers, currentOrderMetadata, completedOrders, pendingOrders,
                 initialized, startup, rendered, nextId, ret, exported, lastData, submitted,
                 syncVars>>

removeFromOrder(itemId, storeTag) ==
  /\ Called("removeFromOrder", MaxCartCalls)
  /\ LET Keep(oi) == ~SameLine(oi, itemId, storeTag)
     IN currentOrder' = SelectSeq(currentOrder, Keep)
  /\ TrackCart(currentOrder', FALSE, <<itemId, storeTag>>, 0)
  /\ UNCHANGED <<items, suppliers, currentOrderMetadata, completedOrders, pendingOrders,
                 initialized, startup, rendered, nextId, ret, exported, lastData, submitted,
                 syncVars>>

\* { ...prev, ...metadata }
Merge(prev, partial) ==
  [f \in DOMAIN prev \cup DOMAIN partial |->
     IF f \in DOMAIN partial THEN partial[f] ELSE prev[f]]

updateOrderMetadata(metadata) ==
  /\ Called("updateOrderMetadata", MaxCartCalls)
  /\ currentOrderMetadata' = Merge(currentOrderMetadata, metadata)
  /\ UNCHANGED <<items, suppliers, currentOrder, completedOrders, pendingOrders,
                 initialized, startup, rendered, nextId, ret, exported, lastData, historyVars,
                 syncVars>>

clearOrder ==
  /\ Called("clearOrder", MaxCartCalls)
  /\ currentOrder' = <<>>
  /\ currentOrderMetadata' = DefaultMetadata
  /\ TrackCart(currentOrder', FALSE, <<>>, 0)
  /\ UNCHANGED <<items, suppliers, completedOrders, pendingOrders,
                 initialized, startup, rendered, nextId, ret, exported, lastData, submitted,
                 syncVars>>

\* The CompletedOrder completeOrder builds from the cart of its closure.
NewCompletedOrder(cart) ==
  [id |-> nanoid, items |-> cart, supplier |-> cart[1].item.supplier,
   completedAt |-> now, createdAt |-> now]

completeOrder ==
  /\ Called("completeOrder", MaxCartCalls)
  /\ IF Len(rendered.currentOrder) = 0
       THEN UNCHANGED <<completedOrders, currentOrder, currentOrderMetadata, nextId,
                        cartAdds, cartPure>>
       ELSE /\ completedOrders' =
                 Append(completedOrders, NewCompletedOrder(rendered.currentOrder))
            /\ nextId' = nextId + 1
            /\ currentOrder' = <<>>
            /\ currentOrderMetadata' = DefaultMetadata
            /\ TrackCart(currentOrder', FALSE, <<>>, 0)
  /\ UNCHANGED <<items, suppliers, pendingOrders, initialized, startup, rendered, ret, exported,
                 lastData, submitted, syncVars>>

(***************************************************************************)
(* AppProvider: pending orders.                                            *)
(***************************************************************************)
\* Array.prototype.findIndex, 1-based, over the indices that pass the test:
\* the first of them, 0 when there is none.
FindIndex(passing) ==
  IF passing = {}
    THEN 0
    ELSE CHOOSE i \in passing : \A j \in passing : i <= j

IsOpen(po) == po.status = "pending" \/ po.status = "processing"

\* The test of pendingOrders.find in addPendingOrder.
MatchesDraft(po, order) ==
  /\ po.supplier = order.supplier
  /\ po.storeTag = order.storeTag
  /\ IsOpen(po)

\* order.items.forEach(newItem => ...) over mergedItems.
RECURSIVE mergeItems(_, _)
mergeItems(mergedItems, newItems) ==
  IF newItems = <<>>
    THEN mergedItems
    ELSE LET newItem == Head(newItems)
             existingItemIndex ==
               FindIndex({i \in DOMAIN mergedItems :
                            mergedItems[i].item.id = newItem.item.id})
         IN mergeItems(
              IF existingItemIndex > 0
                THEN [mergedItems EXCEPT ![existingItemIndex].quantity =
                                            @ + newItem.quantity]
                ELSE Append(mergedItems, newItem),
              Tail(newItems))

\* The updater updatePendingOrder passes to setPendingOrders.
updatePendingOrderUpdate(prev, id, orderUpdate) ==
  [i \in DOMAIN prev |->
     IF prev[i].id = id
       THEN Merge(Merge(prev[i], orderUpdate), [updatedAt |-> now])
       ELSE prev[i]]

\* The history of the drafts submitted, per (supplier, storeTag): the
\* quantity submitted per item id, and whether every draft had an open status.
TrackSubmitted(order) ==
  submitted' =
    [submitted EXCEPT ![<<order.supplier, order.storeTag>>] =
       [allOpen |-> @.allOpen /\ IsOpen(order),
        quantity |->
          [id \in ItemIds |->
             LET lines == {i \in DOMAIN order.items : order.items[i].item.id = id}
             IN IF lines = {}
                  THEN @.quantity[id]
                  ELSE @.quantity[id] +
                       order.items[CHOOSE i \in lines : TRUE].quantity]]]

addPendingOrder(order) ==
  /\ Called("addPendingOrder", MaxPendingCalls)
  /\ LET found == FindIndex({i \in DOMAIN rendered.pendingOrders :
                                MatchesDraft(rendered.pendingOrders[i], order)})
     IN IF found > 0
          THEN LET existingOrder == rendered.pendingOrders[found]
               IN /\ pendingOrders' =
                       updatePendingOrderUpdate(
                         pendingOrders, existingOrder.id,
                         [items |-> mergeItems(existingOrder.items, order.items),
                          updatedAt |-> now])
                  /\ ret' = existingOrder.id
                  /\ UNCHANGED nextId
          ELSE /\ pendingOrders' =
                    Append(pendingOrders,
                           Merge(order, [id |-> nanoid, createdAt |-> now,
                                         updatedAt |-> now]))
               /\ ret' = nanoid
               /\ nextId' = nextId + 1
  /\ TrackSubmitted(order)
  /\ UNCHANGED <<items, suppliers, currentOrder, currentOrderMetadata, completedOrders,
                 initialized, startup, rendered, exported, lastData, cartAdds, cartPure,
                 syncVars>>

(***************************************************************************)
(* AppProvider: items, suppliers, export and import.                       *)
(***************************************************************************)
\* customId || nanoid()
addItem(item, customId) ==
  /\ Called("addItem", MaxImportCalls)
  /\ items' = Append(items, Merge(item, [id |-> IF customId = undefined
                                                  THEN nanoid ELSE customId]))
  /\ nextId' = IF customId = undefined THEN nextId + 1 ELSE nextId
  /\ UNCHANGED <<suppliers, currentOrder, currentOrderMetadata, completedOrders,
                 pendingOrders, initialized, startup, rendered, ret, exported, lastData,
                 historyVars, syncVars>>

\* supplier.defaultPaymentMethod || 'CASH ON DELIVERY'
addSupplier(supplier) ==
  /\ Called("addSupplier", MaxImportCalls)
  /\ suppliers' =
       Append(suppliers,
              Merge(supplier,
                    [id |-> nanoid,
                     defaultPaymentMethod |->
                       IF "defaultPaymentMethod" \in DOMAIN supplier
                         THEN supplier.defaultPaymentMethod
                         ELSE CASH_ON_DELIVERY]))
  /\ nextId' = nextId + 1
  /\ UNCHANGED <<items, currentOrder, currentOrderMetadata, completedOrders,
                 pendingOrders, initialized, startup, rendered, ret, exported, lastData,
                 historyVars, syncVars>>

\* exportData returns the collections of its closure.
exportData ==
  /\ Called("exportData", MaxImportCalls)
  /\ exported' =
       [taken |-> TRUE,
        data |-> [items |-> rendered.items,
                  suppliers |-> rendered.suppliers,
                  completedOrders |-> rendered.completedOrders,
                  pendingOrders |-> rendered.pendingOrders,
                  currentOrder |-> rendered.currentOrder,
                  currentOrderMetadata |-> rendered.currentOrderMetadata]]
  /\ UNCHANGED <<storeVars, startup, rendered, nextId, ret, lastData, historyVars, syncVars>>

\* setX(data.x || [])  in place of  if (data.x) setX(data.x)
ImportFieldOrEmpty(prev, data, field) ==
  IF field \in DOMAIN data THEN data[field] ELSE <<>>

\* no setX at all
ImportFieldNever(prev, data, field) == prev

\* if (data.x) setX(data.x): a collection is an array, which is truthy even
\* when empty, so the cell is set exactly when the field is present.
ImportField(prev, data, field) ==
  IF field \in DOMAIN data THEN data[field] ELSE prev

importData(data) ==
  /\ Called("importData", MaxImportCalls)
  /\ items' = ImportField(items, data, "items")
  /\ suppliers' = ImportField(suppliers, data, "suppliers")
  /\ completedOrders' = ImportField(completedOrders, data, "completedOrders")
  /\ pendingOrders' = ImportField(pendingOrders, data, "pendingOrders")
  /\ lastData' = [given |-> TRUE, data |-> data]
  /\ UNCHANGED <<currentOrder, currentOrderMetadata, initialized, startup, rendered, nextId,
                 ret, exported, historyVars, syncVars>>

(***************************************************************************)
(* SpecSync: the adapter under any caller.  Each call carries the          *)
(* collection as it stood at the call: rows with distinct ids, stamped     *)
(* with the number of the call so that two calls never carry equal data.   *)
(***************************************************************************)
RowLists == {s \in SeqsUpTo(RowIds, MaxRows) : Injective(s)}

Stamp(ids, v) == [i \in DOMAIN ids |-> [id |-> ids[i], v |-> v]]

NextSync ==
  \/ \E ids \in RowLists : syncItems(Stamp(ids, nSync + 1))
  \/ \E ids \in RowLists : syncSuppliers(Stamp(ids, nSync + 1))
  \/ \E ids \in RowLists : syncPendingOrders(Stamp(ids, nSync + 1))
  \/ syncCurrentOrder([v |-> nSync + 1])
  \/ \E i \in 1..MaxSyncCalls, ok \in BOOLEAN : UpsertSettles(i, ok)
  \/ \E i \in 1..MaxSyncCalls, ok \in BOOLEAN : SelectSettles(i, ok)
  \/ \E i \in 1..MaxSyncCalls, ok \in BOOLEAN : WriteSettles(i, ok)

SpecSync == Init /\ [][NextSync]_vars

(***************************************************************************)
(* SpecCart: the cart handlers under any caller, with renders in between.  *)
(***************************************************************************)
CartTags == {"wb", undefined}

MetadataPatches == {[paymentMethod |-> "Aba"], [store |-> "wb"]}

NextCart ==
  \/ \E item \in ItemPool, q \in Quantities, tag \in CartTags :
       addToOrder(item, q, tag)
  \/ \E id \in ItemIds, q \in Quantities, tag \in CartTags :
       updateOrderItem(id, q, tag)
  \/ \E id \in ItemIds, tag \in CartTags : removeFromOrder(id, tag)
  \/ \E m \in MetadataPatches : updateOrderMetadata(m)
  \/ clearOrder
  \/ completeOrder
  \/ Render

SpecCart == Init /\ [][NextCart]_vars

(***************************************************************************)
(* SpecPending: addPendingOrder under any caller, with renders in between. *)
(* A draft holds one or two lines of distinct items (the lines of a cart   *)
(* for one store), for one supplier and one store, with any status.        *)
(***************************************************************************)
DraftLines ==
  {s \in SeqsUpTo([item : ItemPool, quantity : Quantities], MaxDraftLines) :
     s # <<>> /\ \A i, j \in DOMAIN s : s[i].item.id = s[j].item.id => i = j}

Drafts ==
  [supplier : SupplierNames, storeTag : StoreTags,
   status : {"pending", "processing", "completed"}, items : DraftLines]

NextPending ==
  \/ \E order \in Drafts : addPendingOrder(order)
  \/ Render

SpecPending == Init /\ [][NextPending]_vars

(***************************************************************************)
(* SpecImport: exportData and importData under any caller, with mutations  *)
(* of every collection and renders in between.  importData is given the    *)
(* snapshot exportData returned, or any subset of the four StorageData     *)
(* collections with a value each.                                          *)
(***************************************************************************)
StorageFields == {"items", "suppliers", "completedOrders", "pendingOrders"}

ImportValue ==
  [items |-> <<[id |-> "b", supplier |-> "s2"]>>,
   suppliers |-> <<[id |-> "x1", name |-> "s2", defaultPaymentMethod |-> "BANK"]>>,
   completedOrders |-> <<>>,
   pendingOrders |->
     <<[id |-> "x2", supplier |-> "s2", storeTag |-> "o2", status |-> "completed",
        items |-> <<[item |-> [id |-> "b", supplier |-> "s2"], quantity |-> 2]>>,
        createdAt |-> 0, updatedAt |-> 0]>>]

ImportInputs == {[f \in fields |-> ImportValue[f]] : fields \in SUBSET StorageFields}

\* The caller gives importData the snapshot exportData returned.
importExported ==
  /\ exported.taken
  /\ importData(exported.data)

ImportDraft ==
  [supplier |-> "s1", storeTag |-> "wb", status |-> "pending",
   items |-> <<[item |-> [id |-> "a", supplier |-> "s1"], quantity |-> 1]>>]

NextImport ==
  \/ exportData
  \/ \E data \in ImportInputs : importData(data)
  \/ importExported
  \/ \E customId \in {undefined, "a"} : addItem([supplier |-> "s1"], customId)
  \/ addSupplier([name |-> "s1"])
  \/ addToOrder([id |-> "a", supplier |-> "s1"], 1, "wb")
  \/ completeOrder
  \/ addPendingOrder(ImportDraft)
  \/ Render

SpecImport == Init /\ [][NextImport]_vars

(***************************************************************************)
(* Claims about the sync adapter (checked under SpecSync).                 *)
(***************************************************************************)
InFlightOf(cat) == {i \in DOMAIN inflight : inflight[i].cat = cat}

\* C4: each sync category has its own in-flight guard: a sync call for a
\* category of which no push is in flight is never dropped, whatever other
\* categories are in flight.
C4_PerCategoryGuard ==
  [][(nSync' = nSync + 1 /\ InFlightOf(lastSync'.cat) = {})
       => lastSync'.result # "dropped"]_vars

\* C5: at most one push of a category is in flight at any time; a sync call
\* made while a push of its category is in flight is dropped, writes nothing
\* to the remote store and starts nothing; and no step other than a sync call
\* puts a push in flight (dropped data is not queued for later).
C5_OnePushPerCategory ==
  /\ [](\A cat \in Categories : Cardinality(InFlightOf(cat)) <= 1)
  /\ [][(nSync' = nSync + 1 /\ InFlightOf(lastSync'.cat) # {})
          => /\ lastSync'.result = "dropped"
             /\ remote' = remote
             /\ inflight' = inflight]_vars
  /\ [][nSync' = nSync
          => /\ Len(inflight') <= Len(inflight)
             /\ {t.rows : t \in Range(inflight')} \subseteq
                  {t.rows : t \in Range(inflight)}]_vars

\* A call was dropped while a push of its own category, carrying other data,
\* is in flight.
C5_Witness ==
  /\ lastSync.result = "dropped"
  /\ \E i \in InFlightOf(lastSync.cat) : inflight[i].rows[1].v < nSync

(***************************************************************************)
(* Claims about the cart (checked under SpecCart).                         *)
(***************************************************************************)
LinesOf(cart, key) ==
  {i \in DOMAIN cart : cart[i].item.id = key[1] /\ cart[i].storeTag = key[2]}

\* C6: after any sequence of addToOrder calls on an empty cart, the cart has
\* no line for a pair (item id, storeTag) that was never added and exactly one
\* line for a pair that was, whose quantity is the sum of the quantities added
\* for that pair; the same item under another storeTag is another line.
C6_OneLinePerItemAndStore ==
  cartPure =>
    \A key \in DOMAIN cartAdds :
      IF cartAdds[key].n = 0
        THEN LinesOf(currentOrder, key) = {}
        ELSE /\ Cardinality(LinesOf(currentOrder, key)) = 1
             /\ \A i \in LinesOf(currentOrder, key) :
                  currentOrder[i].quantity = cartAdds[key].sum

\* One item was added twice under one storeTag and once under another: the
\* cart holds two lines.
C6_Witness ==
  /\ cartPure
  /\ Len(currentOrder) = 2
  /\ \E id \in ItemIds :
       cartAdds[<<id, "wb">>].n = 2 /\ cartAdds[<<id, undefined>>].n = 1

\* C7: completeOrder called right after clearOrder, with or without a render
\* in between, leaves completedOrders unchanged.
C7_ClearThenCompleteIsNoOp ==
  [][(lastOp = "clearOrder" /\ lastOp' = "completeOrder")
       => completedOrders' = completedOrders]_vars

\* C8: completeOrder on a non-empty cart appends exactly one CompletedOrder
\* holding the cart's lines and the first line's supplier, empties the cart,
\* resets the metadata and leaves pendingOrders unchanged; and a
\* CompletedOrder is appended only by such a step, so that no cart is
\* snapshotted twice.
C8_CompleteSnapshotsCartOnce ==
  /\ [][(lastOp' = "completeOrder" /\ now' = now + 1 /\ currentOrder # <<>>)
          => /\ Len(completedOrders') = Len(completedOrders) + 1
             /\ SubSeq(completedOrders', 1, Len(completedOrders)) = completedOrders
             /\ completedOrders'[Len(completedOrders')].items = currentOrder
             /\ completedOrders'[Len(completedOrders')].supplier =
                  currentOrder[1].item.supplier
             /\ currentOrder' = <<>>
             /\ currentOrderMetadata' = DefaultMetadata
             /\ pendingOrders' = pendingOrders]_vars
  /\ [][completedOrders' # completedOrders
          => /\ currentOrder # <<>>
             /\ currentOrder' = <<>>
             /\ completedOrders' =
                  Append(completedOrders, completedOrders'[Len(completedOrders')])
             /\ completedOrders'[Len(completedOrders')].items = currentOrder]_vars

(***************************************************************************)
(* Claims about the pending orders (checked under SpecPending).            *)
(***************************************************************************)
OpenOrdersOf(orders, supplier, storeTag) ==
  {i \in DOMAIN orders :
     /\ orders[i].supplier = supplier
     /\ orders[i].storeTag = storeTag
     /\ IsOpen(orders[i])}

\* C1: after any sequence of addPendingOrder calls on an empty collection, at
\* most one order with status pending or processing exists per (supplier,
\* storeTag).
C1_AtMostOneOpenOrderPerPair ==
  \A supplier \in SupplierNames, storeTag \in StoreTags :
    Cardinality(OpenOrdersOf(pendingOrders, supplier, storeTag)) <= 1

\* C2: addPendingOrder returns the id of an open order of the draft's supplier
\* and storeTag when pendingOrders holds one, and appends nothing; otherwise
\* it appends exactly one order, with an id no order had, and returns that id.
C2_ReturnsExistingOrFreshId ==
  [][\A order \in Drafts :
       addPendingOrder(order) =>
         LET open == OpenOrdersOf(pendingOrders, order.supplier, order.storeTag)
         IN IF open # {}
              THEN /\ \E i \in open : ret' = pendingOrders[i].id
                   /\ Len(pendingOrders') = Len(pendingOrders)
              ELSE /\ Len(pendingOrders') = Len(pendingOrders) + 1
                   /\ SubSeq(pendingOrders', 1, Len(pendingOrders)) = pendingOrders
                   /\ pendingOrders'[Len(pendingOrders')].id = ret'
                   /\ \A i \in DOMAIN pendingOrders : pendingOrders[i].id # ret']_vars

\* C3: for every (supplier, storeTag) that received drafts, all with an open
\* status, there is one open order, and its items hold, for every item id
\* submitted, one line whose quantity is the sum of the quantities submitted
\* for that id, and no other line; and a call that merges changes only the
\* items and updatedAt of an order.
C3_MergeSumsSubmittedQuantities ==
  /\ [](\A supplier \in SupplierNames, storeTag \in StoreTags :
          LET sub == submitted[<<supplier, storeTag>>]
          IN (sub.allOpen /\ \E id \in ItemIds : sub.quantity[id] > 0) =>
               /\ Cardinality(OpenOrdersOf(pendingOrders, supplier, storeTag)) = 1
               /\ \A i \in OpenOrdersOf(pendingOrders, supplier, storeTag) :
                    \A id \in ItemIds :
                      LET lines == {k \in DOMAIN pendingOrders[i].items :
                                      pendingOrders[i].items[k].item.id = id}
                      IN IF sub.quantity[id] = 0
                           THEN lines = {}
                           ELSE /\ Cardinality(lines) = 1
                                /\ \A k \in lines :
                                     pendingOrders[i].items[k].quantity =
                                       sub.quantity[id])
  /\ [][(lastOp' = "addPendingOrder" /\ now' = now + 1
           /\ Len(pendingOrders') = Len(pendingOrders))
          => \A i \in DOMAIN pendingOrders :
               \A f \in DOMAIN pendingOrders[i] \ {"items", "updatedAt"} :
                 pendingOrders'[i][f] = pendingOrders[i][f]]_vars

(***************************************************************************)
(* Claims about export and import (checked under SpecImport).              *)
(***************************************************************************)
Cell(field) ==
  CASE field = "items" -> items
    [] field = "suppliers" -> suppliers
    [] field = "completedOrders" -> completedOrders
    [] field = "pendingOrders" -> pendingOrders
    [] field = "currentOrder" -> currentOrder
    [] field = "currentOrderMetadata" -> currentOrderMetadata

AllFields == StorageFields \cup {"currentOrder", "currentOrderMetadata"}

ImportStep == lastOp' = "importData" /\ now' = now + 1

\* C9: importData leaves every collection whose field is absent from the
\* input as it was; with only items present it sets items and leaves
\* suppliers, pendingOrders, completedOrders, the cart and its metadata.
C9_ImportLeavesAbsentFields ==
  [][ImportStep =>
       /\ \A field \in AllFields \ DOMAIN lastData'.data :
            Cell(field)' = Cell(field)
       /\ DOMAIN lastData'.data = {"items"} =>
            /\ items' = lastData'.data.items
            /\ suppliers' = suppliers
            /\ pendingOrders' = pendingOrders
            /\ completedOrders' = completedOrders
            /\ currentOrder' = currentOrder
            /\ currentOrderMetadata' = currentOrderMetadata]_vars

\* importData was given items alone while every other collection held
\* something: the others are still there.
C9_Witness ==
  /\ lastOp = "importData"
  /\ DOMAIN lastData.data = {"items"}
  /\ items = lastData.data.items
  /\ suppliers # <<>>
  /\ pendingOrders # <<>>
  /\ currentOrder # <<>>

\* C10 as stated: importData sets every collection whose field is present in
\* the input, the current order and its metadata included.
C10_ImportRestoresEveryPresentField ==
  [][ImportStep =>
       \A field \in AllFields \cap DOMAIN lastData'.data :
         Cell(field)' = lastData'.data[field]]_vars

\* C10 as amended: importData sets items, suppliers, completedOrders and
\* pendingOrders to the input's values when present, whatever happened since
\* the snapshot was taken; the current order and its metadata are not
\* restored: importData leaves them as they are.
C10_ImportRestoresStorageFields ==
  [][ImportStep =>
       /\ \A field \in StorageFields \cap DOMAIN lastData'.data :
            Cell(field)' = lastData'.data[field]
       /\ currentOrder' = currentOrder
       /\ currentOrderMetadata' = currentOrderMetadata]_vars

\* A snapshot of exportData was imported after items and the cart changed: the
\* items are the snapshot's again, the cart is not.
C10_Witness ==
  /\ lastOp = "importData"
  /\ exported.taken
  /\ lastData.data = exported.data
  /\ exported.data.items # <<>>
  /\ items = exported.data.items
  /\ currentOrder # exported.data.currentOrder

(***************************************************************************)
(* SupabaseSync and AppProvider: deleting an item.                         *)
(***************************************************************************)
\* prev.filter(item => item.id !== id)  removing the first such item only
deleteFirstItem(prev, id) ==
  LET hits == {i \in DOMAIN prev : prev[i].id = id}
  IN IF hits = {}
       THEN prev
       ELSE RemoveAt(prev, CHOOSE i \in hits : \A j \in hits : i <= j)

\* prev.filter(item => item.id !== id)
deleteItemUpdate(prev, id) ==
  LET Keep(item) == item.id # id
  IN SelectSeq(prev, Keep)

\* SupabaseSync.deleteItem up to its await: no guard is tested or taken.
deleteItemCall(flight, itemId) ==
  Append(flight, [cat |-> "deleteItem", rows |-> <<[id |-> itemId]>>,
                  k |-> 1, existing |-> 0])

\* deleteItem of AppProvider: the setter, then the remote delete, whose
\* rejection goes to console.error.
deleteItem(id) ==
  /\ Called("deleteItem", MaxStoreCalls)
  /\ items' = deleteItemUpdate(items, id)
  /\ inflight' = deleteItemCall(inflight, id)
  /\ UNCHANGED <<suppliers, currentOrder, currentOrderMetadata, completedOrders,
                 pendingOrders, initialized, startup, rendered, nextId, ret, exported,
                 lastData, historyVars, syncInProgress, remote, nSync, lastSync>>

\* DeleteSettles with a catch that puts the item back when the delete failed
DeleteSettlesRestoring(i, ok) ==
  /\ i \in DOMAIN inflight
  /\ inflight[i].cat = "deleteItem"
  /\ LET itemId == inflight[i].rows[1].id
     IN /\ remote' = IF ok
                       THEN [remote EXCEPT !.items = {r \in @ : r.id # itemId}]
                       ELSE remote
        /\ lastSync' = [cat |-> "deleteItem", id |-> itemId,
                        result |-> IF ok THEN "resolved" ELSE "rejected"]
        /\ items' = IF ok THEN items ELSE Append(items, [id |-> itemId])
  /\ inflight' = RemoveAt(inflight, i)
  /\ UNCHANGED <<suppliers, currentOrder, currentOrderMetadata, completedOrders,
                 pendingOrders, initialized, startup, rendered, nextId, now,
                 callerVars, historyVars, syncInProgress, nSync>>

\* The awaited  delete().eq('id', itemId)  answers: without error the rows of
\* that id are gone from the table; with an error the table is as it was and
\* the call throws (the promise rejects).
DeleteSettles(i, ok) ==
  /\ i \in DOMAIN inflight
  /\ inflight[i].cat = "deleteItem"
  /\ LET itemId == inflight[i].rows[1].id
     IN /\ remote' = IF ok
                       THEN [remote EXCEPT !.items = {r \in @ : r.id # itemId}]
                       ELSE remote
        /\ lastSync' = [cat |-> "deleteItem", id |-> itemId,
                        result |-> IF ok THEN "resolved" ELSE "rejected"]
  /\ inflight' = RemoveAt(inflight, i)
  /\ UNCHANGED <<syncInProgress, nSync, appVars>>

(***************************************************************************)
(* AppProvider: startup.  The effect of the mount calls initializeData,    *)
(* which awaits the four fetches and then sets the cells.                  *)
(***************************************************************************)
\* The rows of a table as the list a select returns.
Lists(table) ==
  {rows \in SeqsUpTo(table, Cardinality(table)) :
     Len(rows) = Cardinality(table) /\ Injective(rows)}

\* getCurrentOrder with row i of current_order as the row of
\* limit(1).maybeSingle(), or with none (i = 0).
getCurrentOrder(table, i) ==
  IF i = 0
    THEN [items |-> <<>>,
          metadata |-> [paymentMethod |-> CASH_ON_DELIVERY, store |-> undefined]]
    ELSE [items |-> table[i].items,
          metadata |-> [paymentMethod |-> table[i].payment_method,
                        store |-> table[i].store]]

\* What Promise.all of getItems, getSuppliers, getPendingOrders and
\* getCurrentOrder can resolve to.
Fetches ==
  {[items |-> dbItems, suppliers |-> dbSuppliers, pendingOrders |-> dbPendingOrders,
    currentOrder |-> getCurrentOrder(remote.current_order, i)] :
     dbItems \in Lists(remote.items), dbSuppliers \in Lists(remote.suppliers),
     dbPendingOrders \in Lists(remote.pending_orders),
     i \in IF remote.current_order = <<>> THEN {0} ELSE DOMAIN remote.current_order}

\* parseDefaultData(defaultDataJson) when it does not throw.
DefaultData ==
  [items |-> <<[id |-> "d1", supplier |-> "s1"]>>,
   suppliers |-> <<[id |-> "d2", name |-> "s1",
                    defaultPaymentMethod |-> CASH_ON_DELIVERY]>>]

\* loadDefaultData: parseDefaultData returns (parsed) or throws.
loadDefaultData(parsed) ==
  IF parsed
    THEN /\ items' = DefaultData.items
         /\ suppliers' = DefaultData.suppliers
    ELSE UNCHANGED <<items, suppliers>>

\* setInitialized(true)  reached only when the default data was not needed or
\* parsed
InitializedUnlessThrown(needed, parsed) == ~needed \/ parsed

\* setInitialized(true)  after the try and the catch: reached on every path.
InitializedAfter(needed, parsed) == TRUE

\* initializeData from the moment Promise.all settles: fulfilled with db
\* (fetched) or rejected.
initializeData(fetched, parsed) ==
  /\ startup.phase = "loading"
  /\ \E db \in Fetches :
       IF fetched /\ Len(db.items) > 0
         THEN /\ items' = db.items
              /\ suppliers' = db.suppliers
              /\ pendingOrders' = db.pendingOrders
              /\ currentOrder' = db.currentOrder.items
              /\ currentOrderMetadata' = db.currentOrder.metadata
              /\ startup' = [phase |-> "settled", fetch |-> "data", db |-> db]
              /\ initialized' = (initialized \/ InitializedAfter(FALSE, parsed))
         ELSE /\ loadDefaultData(parsed)
              /\ UNCHANGED <<pendingOrders, currentOrder, currentOrderMetadata>>
              /\ startup' = [phase |-> "settled",
                             fetch |-> IF fetched THEN "empty" ELSE "failed",
                             parsed |-> parsed]
              /\ initialized' = (initialized \/ InitializedAfter(TRUE, parsed))
  /\ UNCHANGED <<completedOrders, rendered, nextId, now, callerVars, historyVars,
                 syncVars>>

(***************************************************************************)
(* SpecStore: AppProvider with SupabaseSync behind it, from the mount on.  *)
(* The remote tables hold what an earlier session left: nothing, a cart    *)
(* alone, or rows in every table.  The handlers are called at any time,    *)
(* renders and the answers of the remote store come in any order.          *)
(***************************************************************************)
StoredCart ==
  [items |-> <<[item |-> [id |-> "b", supplier |-> "s2"], quantity |-> 2,
                storeTag |-> "o2"]>>,
   payment_method |-> "Aba", store |-> "o2"]

StoredRemote ==
  [items |-> {[id |-> "a", supplier |-> "s2"]},
   suppliers |-> {[id |-> "x1", name |-> "s2", defaultPaymentMethod |-> "BANK"]},
   pending_orders |-> {ImportValue.pendingOrders[1]},
   current_order |-> <<StoredCart>>]

StartupRemotes ==
  {EmptyRemote, [EmptyRemote EXCEPT !.current_order = <<StoredCart>>], StoredRemote}

InitStore ==
  /\ InitLocal
  /\ remote \in StartupRemotes

MaxInflight == MaxStoreCalls + 1

\* The calls the user interface makes in this specification.
callAddItem == now < MaxStoreCalls /\ addItem([supplier |-> "s1"], "a")

callAddSupplier == now < MaxStoreCalls /\ addSupplier([name |-> "s1"])

callAddToOrder ==
  now < MaxStoreCalls /\ addToOrder([id |-> "a", supplier |-> "s1"], 1, "wb")

callUpdateOrderMetadata ==
  now < MaxStoreCalls /\ updateOrderMetadata([store |-> "wb"])

callAddPendingOrder == now < MaxStoreCalls /\ addPendingOrder(ImportDraft)

NextStore ==
  \/ \E fetched \in BOOLEAN, parsed \in BOOLEAN : initializeData(fetched, parsed)
  \/ callAddItem
  \/ deleteItem("a")
  \/ callAddSupplier
  \/ callAddToOrder
  \/ callUpdateOrderMetadata
  \/ callAddPendingOrder
  \/ Render
  \/ \E i \in 1..MaxInflight, ok \in BOOLEAN : UpsertSettles(i, ok)
  \/ \E i \in 1..MaxInflight, ok \in BOOLEAN : SelectSettles(i, ok)
  \/ \E i \in 1..MaxInflight, ok \in BOOLEAN : WriteSettles(i, ok)
  \/ \E i \in 1..MaxInflight, ok \in BOOLEAN : DeleteSettles(i, ok)

SpecStore == InitStore /\ [][NextStore]_vars

\* The remote store answers every fetch: the promise of Promise.all settles.
SpecStoreFair ==
  /\ SpecStore
  /\ WF_vars(\E fetched \in BOOLEAN, parsed \in BOOLEAN : initializeData(fetched, parsed))

\* What exportData returns when called now: the collections of the closure.
ExportedNow ==
  [items |-> rendered.items,
   suppliers |-> rendered.suppliers,
   completedOrders |-> rendered.completedOrders,
   pendingOrders |-> rendered.pendingOrders,
   currentOrder |-> rendered.currentOrder,
   currentOrderMetadata |-> rendered.currentOrderMetadata]

\* importData(exportData()): importData is called right after exportData with
\* what exportData returned, nothing rendered in between.
RoundTripStep ==
  /\ lastOp = "exportData"
  /\ exported.data = ExportedNow
  /\ ImportStep
  /\ lastData'.data = exported.data

\* C11: in any reachable state importData(exportData()) leaves items,
\* suppliers, completedOrders, pendingOrders and currentOrder as they were
\* before the call.
C11_RoundTripIsIdentity ==
  [][RoundTripStep =>
       /\ items' = items
       /\ suppliers' = suppliers
       /\ completedOrders' = completedOrders
       /\ pendingOrders' = pendingOrders
       /\ currentOrder' = currentOrder]_vars

(***************************************************************************)
(* Claims about the store with the adapter behind it (checked under        *)
(* SpecStore).                                                             *)
(***************************************************************************)
Collections ==
  <<items, suppliers, pendingOrders, completedOrders, currentOrder,
    currentOrderMetadata>>

\* A step in which the remote delete of call i of inflight answers.
DeleteAnswers(i) ==
  /\ inflight[i].cat = "deleteItem"
  /\ inflight' = RemoveAt(inflight, i)

\* C12: deleteItem(id) removes every item of that id from items and keeps the
\* others, whatever the remote delete answers later; the answer of the remote
\* delete, error or not, changes no collection (the item is not restored) and
\* nothing the caller holds (no error reaches the caller).
C12_DeleteItemIsLocalFirst ==
  /\ [][(lastOp' = "deleteItem" /\ now' = now + 1) =>
          LET id == inflight'[Len(inflight')].rows[1].id
          IN /\ \A i \in DOMAIN items' : items'[i].id # id
             /\ \A i \in DOMAIN items : items[i].id # id => items[i] \in Range(items')
             /\ Len(inflight') = Len(inflight) + 1]_vars
  /\ [][(\E i \in DOMAIN inflight : DeleteAnswers(i)) =>
          /\ Collections' = Collections
          /\ callerVars' = callerVars]_vars

\* An item that was loaded at startup was deleted, the remote delete failed
\* (the row is still in the remote table), and the item is gone locally.
C12_Witness ==
  /\ lastOp = "deleteItem"
  /\ lastSync.cat = "deleteItem"
  /\ lastSync.result = "rejected"
  /\ startup.phase = "settled"
  /\ startup.fetch = "data"
  /\ \E i \in DOMAIN startup.db.items : startup.db.items[i].id = lastSync.id
  /\ \E r \in remote.items : r.id = lastSync.id
  /\ \A i \in DOMAIN items : items[i].id # lastSync.id

\* C13: while the store is loading (initialized is false) no push is issued:
\* no syncItems, syncSuppliers, syncPendingOrders or syncCurrentOrder call is
\* in flight and the guard of the adapter is free, whatever was written into
\* the collections and rendered meanwhile.
C13_NoPushWhileLoading ==
  ~initialized =>
    /\ \A cat \in Categories : InFlightOf(cat) = {}
    /\ ~syncInProgress

\* The store is loading and has rendered collections that changed since the
\* mount; nothing was pushed.
C13_Witness ==
  /\ ~initialized
  /\ rendered = Snapshot
  /\ items # <<>>
  /\ currentOrder # <<>>
  /\ \A cat \in Categories : InFlightOf(cat) = {}

\* C14: the store reaches Ready (initialized is true) in the step in which
\* the startup fetches settle, whatever they answered and whether or not the
\* default data parsed; so it eventually is Ready when the fetches are
\* answered; and once Ready it stays Ready.
C14_EventuallyReadyForGood ==
  /\ [][(startup.phase = "loading" /\ startup'.phase = "settled") => initialized']_vars
  /\ <>initialized
  /\ [][initialized => initialized']_vars

\* The store is Ready after the fetches failed and the default data did not
\* parse.
C14_Witness ==
  /\ initialized
  /\ startup.phase = "settled"
  /\ startup.fetch = "failed"
  /\ ~startup.parsed

\* The step in which the store enters Ready.
EntersReady == ~initialized /\ initialized'

\* C15: on entry to Ready, when the four fetches succeeded and the fetched
\* items are not empty, items, suppliers, pendingOrders, currentOrder and its
\* metadata are the fetched data; when the fetched items are empty or a fetch
\* failed, items and suppliers are the bundled default data and pendingOrders
\* and currentOrder are empty.
C15_ReadyHoldsFetchedOrDefaultData ==
  [][EntersReady =>
       IF startup'.fetch = "data"
         THEN /\ items' = startup'.db.items
              /\ suppliers' = startup'.db.suppliers
              /\ pendingOrders' = startup'.db.pendingOrders
              /\ currentOrder' = startup'.db.currentOrder.items
              /\ currentOrderMetadata' = startup'.db.currentOrder.metadata
         ELSE /\ items' = DefaultData.items
              /\ suppliers' = DefaultData.suppliers
              /\ pendingOrders' = <<>>
              /\ currentOrder' = <<>>]_vars

\* C16: the store accepts no mutation before the startup fetch (or the
\* default fallback) has completed: a handler called while the store is
\* loading changes no collection, and so entering Ready overwrites nothing a
\* handler had set.
C16_NoMutationWhileLoading ==
  /\ [][(~initialized /\ now' = now + 1) => Collections' = Collections]_vars
  /\ [][(EntersReady /\ now > 0) =>
          \A i \in DOMAIN items : items[i] \in Range(items')]_vars

\* In this step a push of category cat carrying rows was issued and went to
\* the remote store: it is a new call in flight (a push of no rows has
\* nothing to carry).
Pushed(cat, rows) ==
  \/ rows = <<>>
  \/ \E i \in (Len(inflight) + 1)..Len(inflight') :
       inflight'[i].cat = cat /\ inflight'[i].rows = rows

\* The row syncCurrentOrder writes for a cart and its metadata.
CartRow(cart, metadata) ==
  [items |-> cart, payment_method |-> metadata.paymentMethod, store |-> metadata.store]

\* C17: once the store is Ready, the render that follows a mutation of items,
\* suppliers, pendingOrders or the cart (lines or metadata) pushes the whole
\* changed collection as it stands after the mutation; the render in which
\* the store becomes Ready pushes all four.
C17_EveryChangeIsPushed ==
  [][(rendered' # rendered /\ rendered'.initialized) =>
       LET becameReady == ~rendered.initialized
       IN /\ (becameReady \/ rendered'.items # rendered.items) =>
               Pushed("items", rendered'.items)
          /\ (becameReady \/ rendered'.suppliers # rendered.suppliers) =>
               Pushed("suppliers", rendered'.suppliers)
          /\ (becameReady \/ rendered'.pendingOrders # rendered.pendingOrders) =>
               Pushed("pendingOrders", rendered'.pendingOrders)
          /\ (becameReady \/ rendered'.currentOrder # rendered.currentOrder
                \/ rendered'.currentOrderMetadata # rendered.currentOrderMetadata) =>
               Pushed("currentOrder",
                      <<CartRow(rendered'.currentOrder,
                                rendered'.currentOrderMetadata)>>)]_vars

(***************************************************************************)
(* Further claims about the sync adapter (checked under SpecSync, where    *)
(* the rows of a call carry the number of the call).                       *)
(***************************************************************************)
\* A step in which call i of inflight, a pushAll, throws.
PushAllThrows(i) ==
  /\ inflight[i].cat \in PushCategories
  /\ inflight' = RemoveAt(inflight, i)
  /\ lastSync'.result = "rejected"

\* C18: a pushAll that meets a remote error on row k ends there with the
\* error (its promise rejects): the rows before k are in the remote table and
\* stay (nothing is taken back), row k and the rows after it are not written,
\* and the call is no longer in flight to write them later.
C18_PushAllStopsAtFirstError ==
  /\ [][\A i \in DOMAIN inflight : PushAllThrows(i) =>
          LET t == inflight[i]
              tab == TableOf(t.cat)
          IN /\ lastSync' = [cat |-> t.cat, result |-> "rejected", k |-> t.k,
                             rows |-> t.rows]
             /\ remote' = remote
             /\ \A j \in 1..(t.k - 1) : t.rows[j] \in remote'[tab]
             /\ \A j \in t.k..Len(t.rows) : t.rows[j] \notin remote'[tab]
             /\ \A j \in DOMAIN inflight' : inflight'[j].rows # t.rows]_vars
  /\ [](lastSync.result = "rejected" /\ lastSync.cat \in PushCategories =>
          \A j \in lastSync.k..Len(lastSync.rows) :
            lastSync.rows[j] \notin remote[TableOf(lastSync.cat)])

\* A push of two rows threw on its second row: the first is in the table, the
\* second is not.
C18_Witness ==
  /\ lastSync.result = "rejected"
  /\ lastSync.cat \in PushCategories
  /\ lastSync.k = 2
  /\ lastSync.rows[1] \in remote[TableOf(lastSync.cat)]
  /\ lastSync.rows[2] \notin remote[TableOf(lastSync.cat)]

(***************************************************************************)
(* Further claims about the store with the adapter behind it (checked      *)
(* under SpecStore).                                                       *)
(***************************************************************************)
\* C19: a step that is neither a handler call nor the startup load (a render
\* with the pushes it issues or drops, or an answer of the remote store to a
\* push or a delete, error or not) changes no in-memory collection; in
\* particular a rejected push or delete takes no mutation back.
C19_SyncLeavesCollections ==
  /\ [][(now' = now /\ startup' = startup) => Collections' = Collections]_vars
  /\ [][(lastSync' # lastSync /\ lastSync'.result = "rejected") =>
          Collections' = Collections]_vars

\* The push of the items that followed addItem was rejected, and the items
\* are as addItem left them.
C19_Witness ==
  /\ initialized
  /\ lastOp = "addItem"
  /\ lastSync.cat = "items"
  /\ lastSync.result = "rejected"
  /\ lastSync.rows = items
  /\ \E i \in DOMAIN items : items[i] \notin remote.items

(***************************************************************************)
(* The singleton table (checked under SpecSync, which starts from empty    *)
(* remote tables and in which only this client writes).                    *)
(***************************************************************************)
\* C20: after any sequence of syncCurrentOrder calls from an empty table,
\* current_order holds at most one row: a row is inserted only when the
\* table holds none, whatever the select of the existing row answered, an
\* error included.
C20_AtMostOneCurrentOrderRow ==
  /\ [](Len(remote.current_order) <= 1)
  /\ [][Len(remote.current_order') > Len(remote.current_order) =>
          remote.current_order = <<>>]_vars

(***************************************************************************)
(* SpecQuantity: addToOrder and updateOrderItem called with any number as  *)
(* the quantity (a negative one, zero, a positive one), with renders in    *)
(* between.                                                                *)
(***************************************************************************)
NumericQuantities == {-1, 0, 1}

NextQuantity ==
  \/ \E item \in ItemPool, q \in NumericQuantities, tag \in CartTags :
       addToOrder(item, q, tag)
  \/ \E id \in ItemIds, q \in NumericQuantities, tag \in CartTags :
       updateOrderItem(id, q, tag)
  \/ Render

SpecQuantity == Init /\ [][NextQuantity]_vars

\* C21: every line of the cart has a positive quantity in every reachable
\* state, whatever numbers addToOrder and updateOrderItem were given.
C21_CartQuantitiesArePositive ==
  \A i \in DOMAIN currentOrder : currentOrder[i].quantity > 0

(***************************************************************************)
(* SpecNoFailure: the store with the adapter behind it when no remote call *)
(* fails: the startup fetches are fulfilled and every upsert, select,      *)
(* write and delete answers without error, in any order.                   *)
(***************************************************************************)
NextNoFailure ==
  \/ \E parsed \in BOOLEAN : initializeData(TRUE, parsed)
  \/ callAddItem
  \/ deleteItem("a")
  \/ Render
  \/ \E i \in 1..MaxInflight : UpsertSettles(i, TRUE)
  \/ \E i \in 1..MaxInflight : SelectSettles(i, TRUE)
  \/ \E i \in 1..MaxInflight : WriteSettles(i, TRUE)
  \/ \E i \in 1..MaxInflight : DeleteSettles(i, TRUE)

SpecNoFailure == InitStore /\ [][NextNoFailure]_vars

\* Every background task has finished: the store is Ready and has rendered
\* its cells, and no call of the adapter awaits an answer.
Quiescent ==
  /\ initialized
  /\ rendered = Snapshot
  /\ inflight = <<>>

\* C22: when the last call was deleteItem(id), the item is gone locally,
\* every background task has finished and no remote call failed, the remote
\* items table holds no row of that id, whatever was in flight when
\* deleteItem was called.
C22_DeleteReachesRemote ==
  (lastOp = "deleteItem" /\ Quiescent /\ \A i \in DOMAIN items : items[i].id # "a") =>
    \A r \in remote.items : r.id # "a"

(***************************************************************************)
(* The guard of the adapter (checked under SpecSync).                      *)
(***************************************************************************)
NoPushRunning == \A cat \in Categories : InFlightOf(cat) = {}

\* C23: the guard is always released.  A sync call that took the guard sets
\* it back to false in the step in which it finishes, resolved or rejected;
\* a call dropped because the guard was held leaves it held; so the guard is
\* false whenever no push is running, and a sync call made then is not
\* dropped.
C23_GuardIsReleased ==
  /\ [][(\E i \in DOMAIN inflight :
           inflight[i].cat \in Categories /\ inflight' = RemoveAt(inflight, i))
          => ~syncInProgress']_vars
  /\ [][(nSync' = nSync + 1 /\ lastSync'.result = "dropped")
          => syncInProgress /\ syncInProgress']_vars
  /\ [](NoPushRunning => ~syncInProgress)
  /\ [][(nSync' = nSync + 1 /\ NoPushRunning) => lastSync'.result # "dropped"]_vars

\* A sync call that took the guard ended on a remote error; no push is
\* running and the guard is free.
C23_Witness ==
  /\ lastSync.result = "rejected"
  /\ lastSync.cat \in Categories
  /\ NoPushRunning
  /\ ~syncInProgress

====
